---- MODULE Spec2Model ----
(***************************************************************************)
(* loggrep: a streaming multi-phrase line search.  The module models       *)
(* loggrep.py: the enumerator get_files_to_search, the line scanner        *)
(* search_phrases_in_file (one step per line read) and the driver main     *)
(* (non-verbose runs: the logger is not configured and prints nothing on   *)
(* standard output).                                                       *)
(*                                                                         *)
(* A string is a sequence of one-character strings.  A line of standard    *)
(* output is the text handed to print (print adds the newline); an entry   *)
(* of the sink is the string handed to write.  Output entries carry, next  *)
(* to their text, the file and line number they were produced for; these   *)
(* two fields are bookkeeping for the properties and are never read by the *)
(* modelled program.                                                       *)
(***************************************************************************)
EXTENDS Integers, Sequences, FiniteSets, TLC

\* ------------------------------------------------------------------ bounds

\* Longest file, in lines, of the single-file scenarios.
MaxLines == 2
\* Longest phrase list.
MaxPhrases == 2

\* ----------------------------------------------------------------- strings

NL == "\n"

\* Code points, for the order sorted() puts on path strings.
Code(c) ==
    CASE c = NL -> 10
      [] c = " " -> 32
      [] c = "." -> 46
      [] c = "/" -> 47
      [] c = ":" -> 58
      [] c = "A" -> 65
      [] c = "a" -> 97
      [] c = "b" -> 98
      [] c = "d" -> 100
      [] c = "q" -> 113
      [] c = "s" -> 115
      [] c = "x" -> 120
      [] OTHER -> 0

\* str.casefold on the alphabet of the model.
casefold(s) == [i \in 1..Len(s) |-> IF s[i] = "A" THEN "a" ELSE s[i]]

\* str.rstrip(c): drop every trailing c.
RECURSIVE rstrip(_, _)
rstrip(s, c) ==
    IF Len(s) > 0 /\ s[Len(s)] = c
    THEN rstrip(SubSeq(s, 1, Len(s) - 1), c)
    ELSE s

\* phrase in search_line: plain substring containment.
Contains(p, s) ==
    \E i \in 0..(Len(s) - Len(p)) : SubSeq(s, i + 1, i + Len(p)) = p

\* An int in an f-string: its decimal digits.
DigitChar(d) ==
    CASE d = 0 -> "0" [] d = 1 -> "1" [] d = 2 -> "2" [] d = 3 -> "3"
      [] d = 4 -> "4" [] d = 5 -> "5" [] d = 6 -> "6" [] d = 7 -> "7"
      [] d = 8 -> "8" [] OTHER -> "9"

RECURSIVE Digits(_)
Digits(n) ==
    IF n < 10 THEN <<DigitChar(n)>>
    ELSE Digits(n \div 10) \o <<DigitChar(n % 10)>>

\* ----------------------------------------------------------------- scanner

\* The phrases prepared once per file.
search_phrases(phrases, case_sensitive) ==
    IF case_sensitive THEN phrases
    ELSE [i \in 1..Len(phrases) |-> casefold(phrases[i])]

\* The line as read, stripped of trailing newline characters only.
line_content(line) == rstrip(rstrip(line, NL), "\r")

\* The comparison string.
search_line(content, case_sensitive) ==
    IF case_sensitive THEN content ELSE casefold(content)

okSwapped(sl, sp, match_all) ==
    IF match_all
    THEN \E i \in 1..Len(sp) : Contains(sp[i], sl)
    ELSE \A i \in 1..Len(sp) : Contains(sp[i], sl)

\* all(...) in ALL mode, any(...) in ANY mode.
ok(sl, sp, match_all) ==
    IF match_all
    THEN \A i \in 1..Len(sp) : Contains(sp[i], sl)
    ELSE \E i \in 1..Len(sp) : Contains(sp[i], sl)

outKeepNumber(file_path, line_num, content, show_line_numbers) ==
    file_path \o <<":">> \o Digits(line_num) \o <<":", " ">> \o content

\* The formatted match line.
out(file_path, line_num, content, show_line_numbers) ==
    IF show_line_numbers
    THEN file_path \o <<":">> \o Digits(line_num) \o <<":", " ">> \o content
    ELSE file_path \o <<":", " ">> \o content

Entry(kind, text, file, line) ==
    [kind |-> kind, text |-> text, file |-> file, line |-> line]

\* Whether the line just read matches, as the loop body computes it.
LineOk(cfg, line) ==
    ok(search_line(line_content(line), cfg.case_sensitive),
       search_phrases(cfg.phrases, cfg.case_sensitive),
       cfg.match_all)

\* What one pass of the loop body hands back: the scanner's new matches and
\* line_num, what the pass printed and wrote, whether it returned from the
\* function, and whether it called write.
Pass(m, n, printed, written, returned, wrote) ==
    [matches |-> m, line_num |-> n, printed |-> printed, written |-> written,
     returned |-> returned, wrote |-> wrote]

\* print(text) when print_results; output_file.write(text + "\n") when there
\* is an output_file, inside try/except.
Printed(cfg, kind, text, file_path, n) ==
    IF cfg.print_results THEN <<Entry(kind, text, file_path, n)>> ELSE <<>>

Written(cfg, kind, text, file_path, n, wfail) ==
    IF cfg.output_file /\ ~wfail
    THEN <<Entry(kind, text \o <<NL>>, file_path, n)>>
    ELSE <<>>

\* The loop body with "continue" of count_only placed before the increment.
ScanLineCountSkips(cfg, file_path, st, line, wfail) ==
    LET n == st.line_num + 1
        hit == LineOk(cfg, line)
        o == out(file_path, n, line_content(line), cfg.show_line_numbers)
    IN  IF ~hit \/ (cfg.count_only /\ ~cfg.files_only)
        THEN Pass(st.matches, n, <<>>, <<>>, FALSE, FALSE)
        ELSE IF cfg.files_only
        THEN Pass(st.matches + 1, n, Printed(cfg, "path", file_path, file_path, n),
                  Written(cfg, "path", file_path, file_path, n, wfail),
                  TRUE, cfg.output_file)
        ELSE Pass(st.matches + 1, n, Printed(cfg, "match", o, file_path, n),
                  Written(cfg, "match", o, file_path, n, wfail),
                  FALSE, cfg.output_file)

\* The loop body with count_only tested before files_only.
ScanLineCountFirst(cfg, file_path, st, line, wfail) ==
    LET n == st.line_num + 1
        hit == LineOk(cfg, line)
        o == out(file_path, n, line_content(line), cfg.show_line_numbers)
    IN  IF ~hit
        THEN Pass(st.matches, n, <<>>, <<>>, FALSE, FALSE)
        ELSE IF cfg.count_only
        THEN Pass(st.matches + 1, n, <<>>, <<>>, FALSE, FALSE)
        ELSE IF cfg.files_only
        THEN Pass(st.matches + 1, n, Printed(cfg, "path", file_path, file_path, n),
                  Written(cfg, "path", file_path, file_path, n, wfail),
                  TRUE, cfg.output_file)
        ELSE Pass(st.matches + 1, n, Printed(cfg, "match", o, file_path, n),
                  Written(cfg, "match", o, file_path, n, wfail),
                  FALSE, cfg.output_file)

\* The loop body without try/except around write: a failing write leaves
\* the loop (for the function's except clause).
ScanLineWriteRaises(cfg, file_path, st, line, wfail) ==
    LET n == st.line_num + 1
        hit == LineOk(cfg, line)
        o == out(file_path, n, line_content(line), cfg.show_line_numbers)
    IN  IF ~hit
        THEN Pass(st.matches, n, <<>>, <<>>, FALSE, FALSE)
        ELSE IF cfg.files_only
        THEN Pass(st.matches + 1, n, Printed(cfg, "path", file_path, file_path, n),
                  Written(cfg, "path", file_path, file_path, n, wfail),
                  TRUE, cfg.output_file)
        ELSE IF cfg.count_only
        THEN Pass(st.matches + 1, n, <<>>, <<>>, FALSE, FALSE)
        ELSE Pass(st.matches + 1, n, Printed(cfg, "match", o, file_path, n),
                  Written(cfg, "match", o, file_path, n, wfail),
                  cfg.output_file /\ wfail, cfg.output_file)

\* One pass of the loop body (lines 56-108) over the line just read, the
\* scanner being at st = [matches, line_num]; wfail says whether a write to
\* the sink made in this pass raises.
ScanLine(cfg, file_path, st, line, wfail) ==
    LET n == st.line_num + 1
        hit == LineOk(cfg, line)
        o == out(file_path, n, line_content(line), cfg.show_line_numbers)
    IN  IF ~hit
        THEN Pass(st.matches, n, <<>>, <<>>, FALSE, FALSE)
        ELSE IF cfg.files_only
        THEN Pass(st.matches + 1, n, Printed(cfg, "path", file_path, file_path, n),
                  Written(cfg, "path", file_path, file_path, n, wfail),
                  TRUE, cfg.output_file)
        ELSE IF cfg.count_only
        THEN Pass(st.matches + 1, n, <<>>, <<>>, FALSE, FALSE)
        ELSE Pass(st.matches + 1, n, Printed(cfg, "match", o, file_path, n),
                  Written(cfg, "match", o, file_path, n, wfail),
                  FALSE, cfg.output_file)

\* The whole of search_phrases_in_file as a function of its inputs: the file
\* cannot be opened (cant_open), or reading raises when line fail_at is
\* asked for (0: never), and the writes to the sink made for the lines in
\* wf raise.  Result: the count returned, the lines printed, the strings
\* written and the number of lines read.
RECURSIVE ScanLoop(_, _, _, _, _, _)
ScanLoop(cfg, file_path, lines, st, fail_at, wf) ==
    IF st.line_num >= Len(lines) \/ fail_at = st.line_num + 1
    THEN st
    ELSE LET r == ScanLine(cfg, file_path, st, lines[st.line_num + 1],
                           (st.line_num + 1) \in wf)
             new == [matches |-> r.matches, line_num |-> r.line_num,
                     printed |-> st.printed \o r.printed,
                     written |-> st.written \o r.written]
         IN  IF r.returned THEN new
             ELSE ScanLoop(cfg, file_path, lines, new, fail_at, wf)

ScanStart == [matches |-> 0, line_num |-> 0, printed |-> <<>>, written |-> <<>>]

search_phrases_in_file(cfg, file_path, lines, cant_open, fail_at, wf) ==
    IF cant_open THEN ScanStart
    ELSE ScanLoop(cfg, file_path, lines, ScanStart, fail_at, wf)

\* ------------------------------------------------------------- file system

\* The paths of the modelled file system, as pathlib prints them.
P_d == <<"d">>
P_da == <<"d", "/", "a">>
P_db == <<"d", "/", "b">>
P_ds == <<"d", "/", "s">>
P_dsa == <<"d", "/", "s", "/", "a">>
P_dsx == <<"d", "/", "s", ".", "x">>
P_q == <<"q">>

Paths == {P_d, P_da, P_db, P_ds, P_dsa, P_dsx, P_q}

\* p lies under directory d; p is an entry of directory d.
IsUnder(p, d) ==
    /\ Len(p) > Len(d) + 1
    /\ SubSeq(p, 1, Len(d)) = d
    /\ p[Len(d) + 1] = "/"

IsChild(p, d) ==
    /\ IsUnder(p, d)
    /\ \A i \in (Len(d) + 2)..Len(p) : p[i] # "/"

\* str(Path(path)): a trailing slash is dropped.
PathStr(path) == rstrip(path, "/")

is_file(tree, p) == p \in Paths /\ tree[p].kind = "file"
is_dir(tree, p) == p \in Paths /\ tree[p].kind = "dir"

\* What Path.iterdir() and Path.rglob("*") yield, in no particular order.
iterdir(tree, d) == {p \in Paths : IsChild(p, d) /\ tree[p].kind # "none"}
rglob(tree, d) == {p \in Paths : IsUnder(p, d) /\ tree[p].kind # "none"}

\* The orders in which a set may be yielded.
Orders(S) ==
    {s \in [1..Cardinality(S) -> S] :
        \A i, j \in 1..Cardinality(S) : i # j => s[i] # s[j]}

\* a < b in the order of Python strings (by code point, a prefix first).
RECURSIVE StrLess(_, _)
StrLess(a, b) ==
    IF Len(b) = 0 THEN FALSE
    ELSE IF Len(a) = 0 THEN TRUE
    ELSE IF Code(a[1]) # Code(b[1]) THEN Code(a[1]) < Code(b[1])
    ELSE StrLess(Tail(a), Tail(b))

RECURSIVE Insert(_, _)
Insert(x, s) ==
    IF Len(s) = 0 THEN <<x>>
    ELSE IF StrLess(x, s[1]) THEN <<x>> \o s
    ELSE <<s[1]>> \o Insert(x, Tail(s))

sortedNot(s) == s

\* sorted(files_to_search)
RECURSIVE sorted(_)
sorted(s) == IF Len(s) = 0 THEN <<>> ELSE Insert(s[1], sorted(Tail(s)))

\* get_files_to_search without the is_file() test on the entries walked.
get_files_to_searchAll(tree, path, recursive, order) ==
    LET path_obj == PathStr(path)
    IN  IF is_file(tree, path_obj) THEN <<path_obj>>
        ELSE IF is_dir(tree, path_obj) THEN sorted(order)
        ELSE <<>>

\* get_files_to_search; order is the order in which the directory walk
\* (rglob when recursive, iterdir otherwise) yields its entries.
get_files_to_search(tree, path, recursive, order) ==
    LET path_obj == PathStr(path)
    IN  IF is_file(tree, path_obj) THEN <<path_obj>>
        ELSE IF is_dir(tree, path_obj)
        THEN sorted(SelectSeq(order, LAMBDA p : is_file(tree, p)))
        ELSE <<>>

\* The walk main's call of get_files_to_search makes.
Walk(tree, path, recursive) ==
    LET path_obj == PathStr(path)
    IN  IF ~is_dir(tree, path_obj) THEN {}
        ELSE IF recursive THEN rglob(tree, path_obj)
        ELSE iterdir(tree, path_obj)

\* --------------------------------------------------------------- scenarios

Node(kind, lines) == [kind |-> kind, lines |-> lines]
Absent == Node("none", <<>>)

SeqsUpTo(S, n) == UNION {[1..k -> S] : k \in 0..n}

\* The lines of the single-file scenarios, and their phrases.
LineSet == {<<"A", "b">>, <<"a">>}
PhraseSet == {<<"A">>, <<"b">>}
\* The phrase lists: no phrase is given twice in a row.
PhraseLists ==
    {ph \in SeqsUpTo(PhraseSet, MaxPhrases) \ {<<>>} :
        \A i \in 1..(Len(ph) - 1) : ph[i] # ph[i + 1]}

\* A file as its iterator yields it: every line ends with a newline, but
\* the last one need not.
Raw(body, final_newline) ==
    [i \in 1..Len(body) |->
        IF i < Len(body) \/ final_newline THEN body[i] \o <<NL>> ELSE body[i]]

Contents ==
    {Raw(body, nl) : body \in SeqsUpTo(LineSet, MaxLines), nl \in BOOLEAN}

\* The option combinations: (count, files_only, no_line_numbers).
Modes ==
    {<<FALSE, FALSE, FALSE>>, <<FALSE, FALSE, TRUE>>, <<TRUE, FALSE, FALSE>>,
     <<FALSE, TRUE, FALSE>>, <<TRUE, TRUE, FALSE>>}

OutPath == <<"o">>
NoOutput == <<>>

Args(path, recursive, phrases, ignore_case, any, mode, output) ==
    [path |-> path, recursive |-> recursive, phrases |-> phrases,
     ignore_case |-> ignore_case, any |-> any, count |-> mode[1],
     files_only |-> mode[2], no_line_numbers |-> mode[3], output |-> output]

EmptyTree == [p \in Paths |-> IF p = P_d THEN Node("dir", <<>>) ELSE Absent]

\* One file, named directly: every content, phrase list and option.
FileScenarios ==
    {[tree |-> [EmptyTree EXCEPT ![P_da] = Node("file", c)],
      args |-> Args(P_da, FALSE, ph, ic, any, mode, o)] :
        c \in Contents, ph \in PhraseLists, ic \in BOOLEAN, any \in BOOLEAN,
        mode \in Modes, o \in {NoOutput, OutPath}}

\* A directory of three files, one of them in a subdirectory and the middle
\* one without a match.
DirContents == {<<<<"a", NL>>>>, <<<<"A", "b", NL>>, <<"A", "b", NL>>>>}

DirScenarios ==
    {[tree |-> [EmptyTree EXCEPT ![P_da] = Node("file", ca),
                                 ![P_db] = Node("file", <<<<"a", NL>>>>),
                                 ![P_ds] = Node("dir", <<>>),
                                 ![P_dsa] = Node("file", cs)],
      args |-> Args(P_d, rec, <<<<"A">>, <<"b">>>>, FALSE, FALSE, mode, o)] :
        ca \in DirContents, cs \in DirContents,
        rec \in BOOLEAN, mode \in Modes, o \in {NoOutput, OutPath}}

\* Every shape of the tree and every search path, one-line files.
OneLine == <<<<"A", "b", NL>>>>

Trees ==
    {[p \in Paths |->
        CASE p = P_d -> Node("dir", <<>>)
          [] p = P_da -> IF a THEN Node("file", OneLine) ELSE Absent
          [] p = P_db -> IF b THEN Node("file", OneLine) ELSE Node("special", <<>>)
          [] p = P_ds -> IF s = "file" THEN Node("file", OneLine) ELSE Node(s, <<>>)
          [] p = P_dsa -> IF s = "dir" /\ sa THEN Node("file", OneLine) ELSE Absent
          [] p = P_dsx -> IF sx THEN Node("file", OneLine) ELSE Absent
          [] OTHER -> Absent] :
        a \in BOOLEAN, b \in BOOLEAN, s \in {"dir", "file", "none"},
        sa \in BOOLEAN, sx \in BOOLEAN}

SearchPaths == {P_d, P_d \o <<"/">>, P_ds, P_db, P_q}

TreeScenarios ==
    {[tree |-> t,
      args |-> Args(path, rec, <<<<"A">>>>, FALSE, FALSE, <<FALSE, FALSE, FALSE>>,
                    NoOutput)] :
        t \in Trees, path \in SearchPaths, rec \in BOOLEAN}

\* Nothing to search: an empty directory or a missing path, every option.
NoFileScenarios ==
    {[tree |-> EmptyTree,
      args |-> Args(path, rec, <<<<"A">>>>, FALSE, FALSE, mode, o)] :
        path \in {P_d, P_q}, rec \in BOOLEAN, mode \in Modes,
        o \in {NoOutput, OutPath}}

Scenarios ==
    FileScenarios \cup DirScenarios \cup TreeScenarios \cup NoFileScenarios

\* ------------------------------------------------------------------- state

VARIABLES
    tree,            \* the file system: path -> [kind, lines]
    args,            \* the parsed command line
    pc,              \* where main is
    exit_path,       \* how main ended: "", "no_files", "error", "normal"
    files_to_search, \* the enumerator's list
    idx,             \* the for loop's position in files_to_search
    line_num,        \* the scanner's line number
    matches,         \* the scanner's count, then main's copy of it
    total_matches,
    stdout,          \* the lines printed
    sink,            \* the content of the output file
    output_handle,   \* "none", "open", "closed"
    open_inputs,     \* input handles open
    wf,              \* lines of this scan whose write to the sink raised
    results          \* per finished scan: file, count, lines read, error,
                     \* and the lines whose write to the sink raised

vars ==
    <<tree, args, pc, exit_path, files_to_search, idx, line_num, matches,
      total_matches, stdout, sink, output_handle, open_inputs, wf, results>>

\* The arguments main passes to search_phrases_in_file.
ScanCfg(a, handle) ==
    [phrases |-> a.phrases,
     case_sensitive |-> ~a.ignore_case,
     match_all |-> ~a.any,
     output_file |-> handle = "open",
     print_results |-> ~a.count /\ ~a.files_only,
     show_line_numbers |-> ~a.no_line_numbers,
     files_only |-> a.files_only,
     count_only |-> a.count]

\* The scan in progress: its arguments, its file and the file's lines.
cur_cfg == ScanCfg(args, output_handle)
cur_path == files_to_search[idx]
cur_lines == tree[cur_path].lines

Info(text) == Entry("info", text, <<>>, 0)
Dashes50 == "--------------------------------------------------"

\* What an earlier run left in the output file.
Stale == <<Entry("stale", <<"old", NL>>, <<>>, 0)>>

Init ==
    /\ \E sc \in Scenarios : tree = sc.tree /\ args = sc.args
    /\ pc = "main"
    /\ exit_path = ""
    /\ files_to_search = <<>>
    /\ idx = 0
    /\ line_num = 0
    /\ matches = 0
    /\ total_matches = 0
    /\ stdout = <<>>
    /\ sink = IF args.output # NoOutput THEN Stale ELSE <<>>
    /\ output_handle = "none"
    /\ open_inputs = 0
    /\ wf = {}
    /\ results = <<>>

\* ------------------------------------------------------------------ driver

\* What main prints before the search (lines 288-291).
Banner(n, recursive) ==
    <<Info(<<"Searching ">> \o Digits(n) \o <<" files...">>)>>
    \o (IF recursive THEN <<Info(<<"(with recursive option)">>)>> ELSE <<>>)
    \o <<Info(<<Dashes50>>)>>

\* main, lines 254-291: enumerate; return at once when there is no file.
Enumerate ==
    /\ pc = "main"
    /\ \E order \in Orders(Walk(tree, args.path, args.recursive)) :
          files_to_search' =
              get_files_to_search(tree, args.path, args.recursive, order)
    /\ IF files_to_search' = <<>>
       THEN pc' = "done" /\ exit_path' = "no_files" /\ stdout' = stdout
       ELSE /\ pc' = "open_output"
            /\ exit_path' = exit_path
            /\ stdout' = stdout \o Banner(Len(files_to_search'), args.recursive)
    /\ UNCHANGED <<tree, args, idx, line_num, matches, total_matches, sink,
                   output_handle, open_inputs, wf, results>>

\* main, lines 293-300: open(args.output, "w") creates or truncates.
OpenOutput ==
    /\ pc = "open_output"
    /\ IF args.output = NoOutput
       THEN UNCHANGED <<output_handle, sink>>
       ELSE output_handle' = "open" /\ sink' = <<>>
    /\ pc' = "for_file"
    /\ UNCHANGED <<tree, args, exit_path, files_to_search, idx, line_num,
                   matches, total_matches, stdout, open_inputs, wf, results>>

\* open raises: main's except logs the error and its finally has no handle
\* to close (lines 356-364).
OpenOutputError ==
    /\ pc = "open_output"
    /\ args.output # NoOutput
    /\ pc' = "done"
    /\ exit_path' = "error"
    /\ UNCHANGED <<tree, args, files_to_search, idx, line_num, matches,
                   total_matches, stdout, sink, output_handle, open_inputs, wf,
                   results>>

Result(file, count, lines_read, error, failed) ==
    [file |-> file, matches |-> count, lines_read |-> lines_read,
     error |-> error, wf |-> failed]

\* The next file of the loop: search_phrases_in_file opens it (lines 38-52).
OpenFile ==
    /\ pc = "for_file"
    /\ idx < Len(files_to_search)
    /\ idx' = idx + 1
    /\ matches' = 0
    /\ line_num' = 0
    /\ wf' = {}
    /\ open_inputs' = open_inputs + 1
    /\ pc' = "scan"
    /\ UNCHANGED <<tree, args, exit_path, files_to_search, total_matches,
                   stdout, sink, output_handle, results>>

\* open raises (the file is gone, or may not be read): 0 is returned
\* (lines 110-119).
OpenFileError ==
    /\ pc = "for_file"
    /\ idx < Len(files_to_search)
    /\ idx' = idx + 1
    /\ matches' = 0
    /\ line_num' = 0
    /\ wf' = {}
    /\ results' = Append(results, Result(files_to_search[idx'], 0, 0, "open", {}))
    /\ pc' = "scanned"
    /\ UNCHANGED <<tree, args, exit_path, files_to_search, total_matches,
                   stdout, sink, output_handle, open_inputs>>

\* The loop with a memory of the line before: a line that repeats it is
\* passed over.
ReadLineSkipsRepeats ==
    /\ pc = "scan"
    /\ line_num < Len(cur_lines)
    /\ \E wfail \in BOOLEAN :
          LET r == IF line_num > 0 /\ cur_lines[line_num + 1] = cur_lines[line_num]
                   THEN Pass(matches, line_num + 1, <<>>, <<>>, FALSE, FALSE)
                   ELSE ScanLine(cur_cfg, cur_path,
                                 [matches |-> matches, line_num |-> line_num],
                                 cur_lines[line_num + 1], wfail)
          IN  /\ wfail => r.wrote
              /\ matches' = r.matches
              /\ line_num' = r.line_num
              /\ stdout' = stdout \o r.printed
              /\ sink' = sink \o r.written
              /\ wf' = IF wfail THEN wf \cup {r.line_num} ELSE wf
              /\ IF r.returned
                 THEN /\ open_inputs' = open_inputs - 1
                      /\ results' = Append(results,
                            Result(cur_path, r.matches, r.line_num, "none", wf'))
                      /\ pc' = "scanned"
                 ELSE UNCHANGED <<open_inputs, results, pc>>
    /\ UNCHANGED <<tree, args, exit_path, files_to_search, idx, total_matches,
                   output_handle>>

\* One pass of the loop over the next line (lines 56-108); the early return
\* of files_only leaves the with block, which closes the file.
ReadLine ==
    /\ pc = "scan"
    /\ line_num < Len(cur_lines)
    /\ \E wfail \in BOOLEAN :
          LET r == ScanLine(cur_cfg, cur_path,
                            [matches |-> matches, line_num |-> line_num],
                            cur_lines[line_num + 1], wfail)
          IN  /\ wfail => r.wrote
              /\ matches' = r.matches
              /\ line_num' = r.line_num
              /\ stdout' = stdout \o r.printed
              /\ sink' = sink \o r.written
              /\ wf' = IF wfail THEN wf \cup {r.line_num} ELSE wf
              /\ IF r.returned
                 THEN /\ open_inputs' = open_inputs - 1
                      /\ results' = Append(results,
                            Result(cur_path, r.matches, r.line_num, "none", wf'))
                      /\ pc' = "scanned"
                 ELSE UNCHANGED <<open_inputs, results, pc>>
    /\ UNCHANGED <<tree, args, exit_path, files_to_search, idx, total_matches,
                   output_handle>>

\* The iterator is exhausted: the with block closes the file and the count
\* is returned (line 119).
EndOfFile ==
    /\ pc = "scan"
    /\ line_num = Len(cur_lines)
    /\ open_inputs' = open_inputs - 1
    /\ results' = Append(results, Result(cur_path, matches, line_num, "none", wf))
    /\ pc' = "scanned"
    /\ UNCHANGED <<tree, args, exit_path, files_to_search, idx, line_num,
                   matches, total_matches, stdout, sink, output_handle, wf>>

\* A read error that is not caught in the scanner: it ends main's loop
\* (main's except clause and finally).
ReadErrorAborts ==
    /\ pc = "scan"
    /\ open_inputs' = open_inputs - 1
    /\ results' = Append(results, Result(cur_path, matches, line_num, "read", wf))
    /\ output_handle' = IF output_handle = "open" THEN "closed" ELSE output_handle
    /\ pc' = "done"
    /\ exit_path' = "error"
    /\ UNCHANGED <<tree, args, files_to_search, idx, line_num, matches,
                   total_matches, stdout, sink, wf>>

\* A read error after which 0 is returned, not the count so far.
ReadErrorReturnsZero ==
    /\ pc = "scan"
    /\ open_inputs' = open_inputs - 1
    /\ matches' = 0
    /\ results' = Append(results, Result(cur_path, 0, line_num, "read", wf))
    /\ pc' = "scanned"
    /\ UNCHANGED <<tree, args, exit_path, files_to_search, idx, line_num,
                   total_matches, stdout, sink, output_handle, wf>>

\* A read error handled without the with block: the file stays open.
ReadErrorLeaksHandle ==
    /\ pc = "scan"
    /\ results' = Append(results, Result(cur_path, matches, line_num, "read", wf))
    /\ pc' = "scanned"
    /\ UNCHANGED <<tree, args, exit_path, files_to_search, idx, line_num,
                   matches, total_matches, stdout, sink, output_handle,
                   open_inputs, wf>>

\* Reading raises: the with block closes the file, the except clause logs
\* and the count so far is returned (lines 112-119).
ReadError ==
    /\ pc = "scan"
    /\ open_inputs' = open_inputs - 1
    /\ results' = Append(results, Result(cur_path, matches, line_num, "read", wf))
    /\ pc' = "scanned"
    /\ UNCHANGED <<tree, args, exit_path, files_to_search, idx, line_num,
                   matches, total_matches, stdout, sink, output_handle, wf>>

CountLine(path, count) == path \o <<":", " ">> \o Digits(count)

\* The driver's step with the count assigned to the total, not added to it.
AfterScanAssignsTotal ==
    /\ pc = "scanned"
    /\ total_matches' = matches
    /\ IF args.count /\ ~args.files_only
       THEN /\ stdout' = Append(stdout,
                  Entry("count", CountLine(cur_path, matches), cur_path, 0))
            /\ \E wfail \in BOOLEAN :
                  /\ wfail => output_handle = "open"
                  /\ sink' = IF output_handle = "open" /\ ~wfail
                             THEN Append(sink, Entry("count",
                                  CountLine(cur_path, matches) \o <<NL>>,
                                  cur_path, 0))
                             ELSE sink
                  /\ results' = IF wfail
                                THEN [results EXCEPT ![Len(results)].wf = @ \cup {0}]
                                ELSE results
       ELSE UNCHANGED <<stdout, sink, results>>
    /\ pc' = "for_file"
    /\ UNCHANGED <<tree, args, exit_path, files_to_search, idx, line_num,
                   matches, output_handle, open_inputs, wf>>

\* main, lines 316-332: add the count and, in count mode, print and write it;
\* a write of the count that raised is recorded as line 0 of the scan.
AfterScan ==
    /\ pc = "scanned"
    /\ total_matches' = total_matches + matches
    /\ IF args.count /\ ~args.files_only
       THEN /\ stdout' = Append(stdout,
                  Entry("count", CountLine(cur_path, matches), cur_path, 0))
            /\ \E wfail \in BOOLEAN :
                  /\ wfail => output_handle = "open"
                  /\ sink' = IF output_handle = "open" /\ ~wfail
                             THEN Append(sink, Entry("count",
                                  CountLine(cur_path, matches) \o <<NL>>,
                                  cur_path, 0))
                             ELSE sink
                  /\ results' = IF wfail
                                THEN [results EXCEPT ![Len(results)].wf = @ \cup {0}]
                                ELSE results
       ELSE UNCHANGED <<stdout, sink, results>>
    /\ pc' = "for_file"
    /\ UNCHANGED <<tree, args, exit_path, files_to_search, idx, line_num,
                   matches, output_handle, open_inputs, wf>>

\* The trailer without the else branch: nothing is said when nothing matched.
TrailerWhenFound(total, output) ==
    (IF total # 0
     THEN <<Entry("summary", <<"Found ">> \o Digits(total) \o <<" lines:">>, <<>>, 0),
            Info(<<Dashes50>>)>>
     ELSE <<>>)
    \o (IF output # NoOutput
        THEN <<Info(<<"\nResults saved to: ">> \o output)>>
        ELSE <<>>)

\* What main prints after the loop (lines 334-354).
Trailer(total, output) ==
    (IF total # 0
     THEN <<Entry("summary", <<"Found ">> \o Digits(total) \o <<" lines:">>, <<>>, 0),
            Info(<<Dashes50>>)>>
     ELSE <<Entry("summary", <<"No matching lines found.">>, <<>>, 0)>>)
    \o (IF output # NoOutput
        THEN <<Info(<<"\nResults saved to: ">> \o output)>>
        ELSE <<>>)

\* main, lines 334-364: the summary, and the finally clause closes the sink.
Summary ==
    /\ pc = "for_file"
    /\ idx = Len(files_to_search)
    /\ stdout' = stdout \o Trailer(total_matches, args.output)
    /\ output_handle' = IF output_handle = "open" THEN "closed" ELSE output_handle
    /\ pc' = "done"
    /\ exit_path' = "normal"
    /\ UNCHANGED <<tree, args, files_to_search, idx, line_num, matches,
                   total_matches, sink, open_inputs, wf, results>>

Next ==
    \/ Enumerate
    \/ OpenOutput
    \/ OpenOutputError
    \/ OpenFile
    \/ OpenFileError
    \/ ReadLine
    \/ EndOfFile
    \/ ReadError
    \/ AfterScan
    \/ Summary

Spec == Init /\ [][Next]_vars

\* The same runs, every step that can be taken being taken in the end: main
\* is one thread of straight-line code and blocking reads.
FairSpec == Spec /\ WF_vars(Next)

\* -------------------------------------------------------------- properties

\* The per-match lines and file names in s that were produced for file f.
EmittedFor(s, f) ==
    SelectSeq(s, LAMBDA e : e.file = f /\ e.kind \in {"match", "path"})

Texts(s) == [i \in 1..Len(s) |-> s[i].text]

CountLinesFor(s, f) == SelectSeq(s, LAMBDA e : e.file = f /\ e.kind = "count")

\* A scan of r's file under other arguments c, the file behaving as it did
\* in r (it cannot be opened, or reading fails at the same line) and the
\* sink never failing.
Rescan(c, r) ==
    search_phrases_in_file(c, r.file, tree[r.file].lines, r.error = "open",
                           IF r.error = "read" THEN r.lines_read + 1 ELSE 0, {})

NormalCfg == ScanCfg([args EXCEPT !.count = FALSE, !.files_only = FALSE],
                     output_handle)
CountCfg == ScanCfg([args EXCEPT !.count = TRUE, !.files_only = FALSE],
                    output_handle)

\* The scan that has just returned, when pc = "scanned".
Last == results[Len(results)]

\* The scans whose count main has added to the total.
Added == IF pc = "scanned" THEN SubSeq(results, 1, Len(results) - 1) ELSE results

IsNormalRun == ~args.count /\ ~args.files_only
IsCountRun == args.count /\ ~args.files_only

\* C1: in a files-only run of main that has ended, each file of the list is
\* printed on standard output exactly once if a count-mode scan of it
\* reports a count >= 1, and not at all otherwise.
C1_FilesOnlyPrintsFileIffCounted ==
    (pc = "done" /\ exit_path = "normal" /\ args.files_only /\ ~args.count) =>
        \A i \in 1..Len(results) :
            LET r == results[i]
                n == Len(SelectSeq(stdout, LAMBDA e : e.text = r.file))
            IN  n = IF Rescan(CountCfg, r).matches >= 1 THEN 1 ELSE 0

\* C2: for every finished scan (a scan cut short by a read error is one,
\* and a read error can cut a scan at any line), the number of match lines
\* emitted in normal mode equals the count a count-mode scan of the same
\* file returns, and the count main prints as "path: count" in count mode
\* equals the number of lines a normal-mode scan emits; count mode emits no
\* per-match line.
C2_NormalLinesEqualCount ==
    /\ IsNormalRun =>
          /\ \A i \in 1..Len(results) :
                Len(EmittedFor(stdout, results[i].file)) = results[i].matches
          /\ pc = "scanned" => matches = Rescan(CountCfg, Last).matches
    /\ IsCountRun =>
          /\ \A i \in 1..Len(stdout) : stdout[i].kind \notin {"match", "path"}
          /\ \A i \in 1..Len(sink) : sink[i].kind \notin {"match", "path"}
          /\ pc = "scanned" => matches = Len(Rescan(NormalCfg, Last).printed)
          /\ \A i \in 1..Len(Added) :
                LET r == Added[i]
                IN  Texts(CountLinesFor(stdout, r.file)) =
                        <<CountLine(r.file, r.matches)>>

C2_Witness ==
    /\ IsNormalRun
    /\ pc = "done"
    /\ Len(results) = 1
    /\ Len(EmittedFor(stdout, results[1].file)) = 2
    /\ results[1].error = "none"

\* The lines of a file that match under arguments c.
MatchedLines(c, lines) == {k \in 1..Len(lines) : LineOk(c, lines[k])}

FilesOnlyCfg(co, pr) ==
    [cur_cfg EXCEPT !.files_only = TRUE, !.count_only = co, !.print_results = pr]

\* C3: in files-only mode, with or without count-only, the scanner stops at
\* the first matching line: no later line is read, the path is emitted at
\* most once, and the count returned is 1 if a line matched and 0 if none
\* did (of the whole file when the scan was not cut short by an error).
C3_FilesOnlyStopsAtFirstMatch ==
    /\ args.files_only =>
          /\ pc = "scan" =>
                /\ matches = 0
                /\ MatchedLines(cur_cfg, cur_lines) \cap 1..line_num = {}
          /\ \A i \in 1..Len(results) :
                LET r == results[i]
                IN  /\ r.matches \in {0, 1}
                    /\ Len(EmittedFor(stdout, r.file)) <= 1
                    /\ Len(EmittedFor(sink, r.file)) <= 1
                    /\ (args.output # NoOutput /\ r.wf = {}) =>
                          Len(EmittedFor(sink, r.file)) = r.matches
          /\ pc = "scanned" =>
                LET hits == MatchedLines(cur_cfg, cur_lines)
                IN  /\ Last.matches = 1 <=> Last.lines_read \in hits
                    /\ \A k \in hits : k >= Last.lines_read
                    /\ Last.error = "none" => (Last.matches = 1 <=> hits # {})
                    /\ (Last.error = "none" /\ Last.matches = 0) =>
                          Last.lines_read = Len(cur_lines)
    /\ pc = "scanned" =>
          \A co, pr \in BOOLEAN :
              LET s == Rescan(FilesOnlyCfg(co, pr), Last)
                  hits == MatchedLines(cur_cfg, cur_lines)
              IN  /\ s.matches \in {0, 1}
                  /\ s.matches = 1 <=> s.line_num \in hits
                  /\ \A k \in hits : k >= s.line_num
                  /\ Last.error = "none" => (s.matches = 1 <=> hits # {})
                  /\ Texts(s.printed) = IF pr /\ s.matches = 1
                                        THEN <<Last.file>> ELSE <<>>

C3_Witness ==
    /\ args.files_only
    /\ args.count
    /\ pc = "scanned"
    /\ matches = 1
    /\ line_num = 1
    /\ Len(cur_lines) = 2
    /\ LineOk(cur_cfg, cur_lines[2])

\* The claim's own reading of a line: the line without its trailing newline,
\* and whether its comparison string contains every phrase (ALL) or at least
\* one (ANY).
Chomp(line) ==
    IF Len(line) > 0 /\ line[Len(line)] = NL
    THEN SubSeq(line, 1, Len(line) - 1)
    ELSE line

Satisfies(content) ==
    LET fold(x) == IF args.ignore_case THEN casefold(x) ELSE x
        has(i) == Contains(fold(args.phrases[i]), fold(content))
    IN  IF args.any
        THEN \E i \in 1..Len(args.phrases) : has(i)
        ELSE \A i \in 1..Len(args.phrases) : has(i)

RECURSIVE ExpectedOut(_, _, _)
ExpectedOut(f, lines, n) ==
    IF n = 0 THEN <<>>
    ELSE LET content == Chomp(lines[n])
             text == IF args.no_line_numbers
                     THEN f \o <<":", " ">> \o content
                     ELSE f \o <<":">> \o Digits(n) \o <<":", " ">> \o content
         IN  ExpectedOut(f, lines, n - 1)
                 \o (IF Satisfies(content) THEN <<text>> ELSE <<>>)

\* C4: in normal mode the output for a file is, in file order, one entry
\* per line read that satisfies the predicate, "path:k: content" with line
\* numbers and "path: content" without, and nothing else.
C4_NormalOutputExact ==
    IsNormalRun =>
        /\ \A i \in 1..Len(results) :
              LET r == results[i]
                  got == EmittedFor(stdout, r.file)
              IN  /\ Texts(got) =
                         ExpectedOut(r.file, tree[r.file].lines, r.lines_read)
                  /\ \A j \in 1..Len(got) : got[j].kind = "match"
        /\ pc = "scan" =>
              Texts(EmittedFor(stdout, cur_path)) =
                  ExpectedOut(cur_path, cur_lines, line_num)

C4_Witness ==
    /\ IsNormalRun
    /\ args.no_line_numbers
    /\ args.ignore_case
    /\ pc = "done"
    /\ Len(results) = 1
    /\ Len(EmittedFor(stdout, results[1].file)) = 2
    /\ LET lines == tree[results[1].file].lines
       IN  Len(lines) = 2 /\ lines[2][Len(lines[2])] # NL

AllCfg(cs) == [cur_cfg EXCEPT !.match_all = TRUE, !.case_sensitive = cs]
AnyCfg(cs) == [cur_cfg EXCEPT !.match_all = FALSE, !.case_sensitive = cs]

LinesEmitted(f) ==
    LET es == EmittedFor(stdout, f) IN {es[j].line : j \in 1..Len(es)}

\* C5: with more than one phrase, the lines matched in ALL mode are among
\* the lines matched in ANY mode, for either case flag; so the lines an
\* ALL-mode run emits are ANY-mode matches, and an ANY-mode run emits every
\* line it read that matches in ALL mode.
C5_AllSubsetOfAny ==
    (pc = "scanned" /\ Len(args.phrases) > 1) =>
        /\ \A cs \in BOOLEAN :
              MatchedLines(AllCfg(cs), cur_lines)
                  \subseteq MatchedLines(AnyCfg(cs), cur_lines)
        /\ IsNormalRun =>
              LET cs == ~args.ignore_case
              IN  IF args.any
                  THEN MatchedLines(AllCfg(cs), cur_lines) \cap 1..Last.lines_read
                           \subseteq LinesEmitted(Last.file)
                  ELSE LinesEmitted(Last.file)
                           \subseteq MatchedLines(AnyCfg(cs), cur_lines)

C5_Witness ==
    /\ pc = "scanned"
    /\ IsNormalRun
    /\ args.any
    /\ Len(args.phrases) = 2
    /\ MatchedLines(AllCfg(~args.ignore_case), cur_lines) # {}
    /\ MatchedLines(AllCfg(~args.ignore_case), cur_lines)
           # MatchedLines(AnyCfg(~args.ignore_case), cur_lines)
    /\ Len(EmittedFor(stdout, cur_path)) = 2

\* The output file, when one is asked for, was opened.
SinkOpened == args.output = NoOutput \/ output_handle # "none"

\* main got past the enumeration and the opening of the output file.
SearchRan == files_to_search # <<>> /\ SinkOpened

\* The entries of standard output that belong to a file.
PerFile(s) == SelectSeq(s, LAMBDA e : e.kind \in {"match", "path", "count"})

IndexOf(f) == CHOOSE i \in 1..Len(files_to_search) : files_to_search[i] = f

\* The list is in strictly increasing string order, the scans made are those
\* of its first files in that order, one at a time, and the per-file output
\* is ordered by file and, within a file, by line number.
InListOrder ==
    /\ \A i, j \in 1..Len(files_to_search) :
          i < j => StrLess(files_to_search[i], files_to_search[j])
    /\ Len(results) = IF pc = "scan" THEN idx - 1 ELSE idx
    /\ \A i \in 1..Len(results) : results[i].file = files_to_search[i]
    /\ open_inputs = IF pc = "scan" THEN 1 ELSE 0
    /\ LET o == PerFile(stdout)
       IN  /\ \A i \in 1..Len(o) :
                 \E k \in 1..idx : files_to_search[k] = o[i].file
           /\ \A i, j \in 1..Len(o) :
                 i < j =>
                    \/ IndexOf(o[i].file) < IndexOf(o[j].file)
                    \/ /\ o[i].file = o[j].file
                       /\ o[i].kind = "match"
                       /\ o[j].kind = "match"
                       /\ o[i].line < o[j].line

\* C6 as stated: in every run that has ended, each file of the list has
\* been scanned exactly once, in lexicographic order, one scan at a time,
\* with the output in file and line order.
C6_EveryRunScansEachFileOnce ==
    /\ InListOrder
    /\ pc = "done" => Len(results) = Len(files_to_search)

\* C6 as amended: the same, for the runs whose output file, when one is
\* asked for, could be opened; a run that cannot open it scans no file.
C6_ScansEachFileOnceInOrder ==
    /\ InListOrder
    /\ pc = "done" =>
          Len(results) = IF SinkOpened THEN Len(files_to_search) ELSE 0

C6_Witness ==
    /\ pc = "done"
    /\ Len(results) = 3
    /\ args.recursive
    /\ args.output # NoOutput
    /\ Len(EmittedFor(stdout, files_to_search[1])) = 2
    /\ Len(EmittedFor(stdout, files_to_search[3])) = 2
    /\ results[2].error = "open"

\* The directory a path lies in, and whether d is above q.
RECURSIVE Parent(_)
Parent(q) ==
    IF Len(q) = 0 THEN <<>>
    ELSE IF q[Len(q)] = "/" THEN SubSeq(q, 1, Len(q) - 1)
    ELSE Parent(SubSeq(q, 1, Len(q) - 1))

RECURSIVE IsAbove(_, _)
IsAbove(d, q) == Len(q) > 0 /\ (Parent(q) = d \/ IsAbove(d, Parent(q)))

Regular == {q \in Paths : tree[q].kind = "file"}

ListedFiles == {files_to_search[i] : i \in 1..Len(files_to_search)}

\* C7: the enumerator returns the path itself if it names a regular file,
\* the regular files directly in the directory when not recursive, the
\* regular files anywhere below it when recursive, nothing if the path is
\* neither; the list is in strictly increasing string order.
C7_EnumeratorResult ==
    pc # "main" =>
        LET p == PathStr(args.path)
        IN  /\ CASE tree[p].kind = "file" -> files_to_search = <<p>>
                 [] tree[p].kind = "dir" /\ ~args.recursive ->
                        ListedFiles = {q \in Regular : Parent(q) = p}
                 [] tree[p].kind = "dir" /\ args.recursive ->
                        ListedFiles = {q \in Regular : IsAbove(p, q)}
                 [] OTHER -> files_to_search = <<>>
            /\ \A i, j \in 1..Len(files_to_search) :
                  i < j => StrLess(files_to_search[i], files_to_search[j])

C7_Witness ==
    /\ pc = "open_output"
    /\ args.recursive
    /\ args.path = P_d \o <<"/">>
    /\ tree[P_db].kind = "special"
    /\ files_to_search = <<P_da, P_dsx, P_dsa>>

Summaries == SelectSeq(stdout, LAMBDA e : e.kind = "summary")

\* The summary is the one entry of its kind and no per-file entry follows it.
OneSummaryLast ==
    /\ Len(Summaries) = 1
    /\ \A i, j \in 1..Len(stdout) :
          (stdout[i].kind = "summary" /\ i < j) => stdout[j].kind = "info"

\* C8 as stated: a run that has ended has printed the summary line exactly
\* once, after all per-file output, whatever went wrong on the way.
C8_SummaryInEveryRun == pc = "done" => OneSummaryLast

\* C8 as amended: every run ends; a run that found at least one file and
\* could open its output file, when one is asked for, has then printed the
\* summary exactly once, after all per-file output, whatever failed for the
\* files or the writes; a run with no file, or that cannot open its output
\* file, prints no summary.
C8_SummaryWhenSearchRan ==
    /\ [](/\ Len(Summaries) <= 1
          /\ pc # "done" => Len(Summaries) = 0
          /\ pc = "done" => IF SearchRan THEN OneSummaryLast
                            ELSE Len(Summaries) = 0)
    /\ <>(pc = "done")

C8_Witness ==
    /\ pc = "done"
    /\ OneSummaryLast
    /\ Len(results) = 3
    /\ results[1].error = "open"
    /\ results[2].error = "read"
    /\ results[3].wf # {}

RECURSIVE SumMatches(_)
SumMatches(rs) ==
    IF Len(rs) = 0 THEN 0 ELSE rs[1].matches + SumMatches(Tail(rs))

\* C9: a file that cannot be opened counts 0; a scan cut by a read error
\* returns the matches among the lines read, and what it printed stays; the
\* total is the sum of the counts returned; and a run in which a file failed
\* still scans every file of the list.
C9_FileErrorsIsolated ==
    /\ \A i \in 1..Len(results) :
          LET r == results[i]
              hits == MatchedLines(cur_cfg, tree[r.file].lines)
          IN  /\ r.error = "open" =>
                    /\ r.matches = 0
                    /\ r.lines_read = 0
                    /\ EmittedFor(stdout, r.file) = <<>>
              /\ r.error = "read" =>
                    /\ r.matches = Cardinality(hits \cap 1..r.lines_read)
                    /\ IsNormalRun =>
                          Len(EmittedFor(stdout, r.file)) = r.matches
    /\ total_matches = SumMatches(Added)
    /\ (pc = "done" /\ \E i \in 1..Len(results) : results[i].error # "none") =>
          /\ Len(results) = Len(files_to_search)
          /\ \A i \in 1..Len(results) : results[i].file = files_to_search[i]

C9_Witness ==
    /\ pc = "done"
    /\ IsNormalRun
    /\ Len(results) = 3
    /\ results[1].error = "read"
    /\ results[1].matches = 1
    /\ Len(tree[results[1].file].lines) = 2
    /\ results[2].error = "open"
    /\ results[3].matches = 2
    /\ total_matches = 3

\* What main prints for the first k files when no write to the sink fails.
RECURSIVE FilesOutput(_)
FilesOutput(k) ==
    IF k = 0 THEN <<>>
    ELSE LET r == results[k]
             s == Rescan(cur_cfg, r)
         IN  FilesOutput(k - 1) \o s.printed
                 \o (IF IsCountRun
                     THEN <<Entry("count", CountLine(r.file, s.matches), r.file, 0)>>
                     ELSE <<>>)

NoWriteFailed == wf = {} /\ \A i \in 1..Len(results) : results[i].wf = {}

\* The result lines of a stream, without the newline that ends a write.
ResultLines(s) == [i \in 1..Len(PerFile(s)) |-> Chomp(PerFile(s)[i].text)]

\* C11: with a sink configured and open and no write to it failed, the
\* result lines written to the sink so far are the result lines printed on
\* standard output so far, in every output mode.
C11_SinkMirrorsStdout ==
    (output_handle # "none" /\ NoWriteFailed) =>
        ResultLines(sink) = ResultLines(stdout)

\* The same, for the runs that are not files-only.
C11_SinkMirrorsStdoutUnlessFilesOnly ==
    (output_handle # "none" /\ NoWriteFailed /\ ~args.files_only) =>
        ResultLines(sink) = ResultLines(stdout)

\* The output file has been opened for writing by this run, which emptied it.
Truncated ==
    /\ output_handle # "none"
    /\ \A i \in 1..Len(sink) : sink[i].kind # "stale"

\* C12: when an output path is configured, the output file has been created
\* or truncated before the first file is scanned and in every run that has
\* ended, however many files the enumerator found (a run in which opening
\* the output file itself raised aside).
C12_OutputTruncatedAtStart ==
    args.output # NoOutput =>
        /\ idx > 0 => Truncated
        /\ (pc = "done" /\ exit_path # "error") => Truncated

\* The same, for the runs in which the enumerator found a file; a run that
\* found none leaves the output file as it was.
C12_OutputTruncatedWhenFilesFound ==
    args.output # NoOutput =>
        /\ idx > 0 => Truncated
        /\ (pc = "done" /\ exit_path = "normal") => Truncated
        /\ (pc = "done" /\ exit_path # "normal") =>
              (sink = Stale /\ output_handle = "none")

\* ------------------------------------------------------ the scanner's state

\* The lines a file may hold before its last one.
RawLines == {l \o <<NL>> : l \in LineSet} \cup {<<NL>>}

\* The beginnings of k lines of which m match: the files that bring the
\* scanner to the count m and the line number k.
Histories(k, m) ==
    {p \in [1..k -> RawLines] :
        Cardinality({i \in 1..k : LineOk(cur_cfg, p[i])}) = m}

\* What the pass over `line` does in a scan, from its start, of the file
\* that holds the lines p and then `line`.
LastPassOf(p, line, wfail) ==
    LET before == ScanLoop(cur_cfg, cur_path, p, ScanStart, 0, {})
        after == ScanLoop(cur_cfg, cur_path, Append(p, line), ScanStart, 0,
                          IF wfail THEN {Len(p) + 1} ELSE {})
    IN  [matches |-> after.matches, line_num |-> after.line_num,
         printed |-> SubSeq(after.printed, Len(before.printed) + 1,
                            Len(after.printed)),
         written |-> SubSeq(after.written, Len(before.written) + 1,
                            Len(after.written))]

SummaryText(n) ==
    IF n = 0 THEN <<"No matching lines found.">>
    ELSE <<"Found ">> \o Digits(n) \o <<" lines:">>

\* C15: after each file the running total is the sum of the counts the
\* scanner returned for the files scanned so far, which are the first files
\* of the enumerated list; the summary of a run that reached it names the
\* sum over exactly the files of the list, as "Found N lines:", or says
\* "No matching lines found." if and only if that sum is 0.
C15_SummaryIsSumOfCounts ==
    /\ total_matches = SumMatches(Added)
    /\ pc = "scanned" => matches = Last.matches
    /\ Len(results) <= Len(files_to_search)
    /\ \A i \in 1..Len(results) : results[i].file = files_to_search[i]
    /\ (pc = "done" /\ exit_path = "normal") =>
          /\ Len(results) = Len(files_to_search)
          /\ Texts(Summaries) = <<SummaryText(SumMatches(results))>>
          /\ SumMatches(results) = 0 <=>
                Texts(Summaries) = <<<<"No matching lines found.">>>>

\* A run over three files has ended: the scans returned 2, 0 and 2 and the
\* summary names 4.
C15_Witness ==
    /\ pc = "done"
    /\ Len(results) = 3
    /\ results[1].matches = 2
    /\ results[2].matches = 0
    /\ results[3].matches = 2
    /\ Texts(Summaries) = <<<<"Found ", "4", " lines:">>>>

\* A run has ended in which nothing matched, and says so.
C15_WitnessNone ==
    /\ pc = "done"
    /\ Len(results) = 3
    /\ total_matches = 0
    /\ Texts(Summaries) = <<<<"No matching lines found.">>>>

\* ---------------------------------------------------- the count and stdout

\* C16: in a normal run, at every point of a scan and after it, however it
\* ended, the scanner's count is the number of lines it has printed for the
\* file, and the number of lines it has written to the sink for the file is
\* that count less the writes that raised, never more than the count; so
\* the count returned is the number of lines printed for the file.
C16_CountEqualsPrinted ==
    IsNormalRun =>
        /\ pc \in {"scan", "scanned"} =>
              /\ matches = Len(EmittedFor(stdout, cur_path))
              /\ Len(EmittedFor(sink, cur_path)) <= matches
              /\ pc = "scan" =>
                    Len(EmittedFor(sink, cur_path)) =
                        IF output_handle = "open"
                        THEN matches - Cardinality(wf) ELSE 0
        /\ \A i \in 1..Len(results) :
              LET r == results[i]
              IN  /\ r.matches = Len(EmittedFor(stdout, r.file))
                  /\ Len(EmittedFor(sink, r.file)) =
                        IF output_handle # "none"
                        THEN r.matches - Cardinality(r.wf) ELSE 0

\* A normal run with an output file: a scan printed two lines, one of its
\* two writes raised, and a read error then ended it.
C16_Witness ==
    /\ pc = "scanned"
    /\ IsNormalRun
    /\ Last.error = "read"
    /\ Last.lines_read = 2
    /\ Last.matches = 2
    /\ Last.wf = {2}
    /\ Len(EmittedFor(stdout, Last.file)) = 2
    /\ Len(EmittedFor(sink, Last.file)) = 1

====
